---- MODULE Spec2Model ----
(***************************************************************************)
(* kalamar/item.py: Item, AtomItem, CapsuleItem and AliasedMultiDict.       *)
(*                                                                         *)
(* An Item owns two werkzeug MultiDicts (raw_storage_properties and        *)
(* raw_parser_properties), each seen through an AliasedMultiDict, and the  *)
(* two views are read through a CombinedMultiDict.  Reading a property     *)
(* parses the item lazily; writing one routes it to one of the two maps.   *)
(* An item is made by Item.get_item_parser (unloaded), by Item.create_item *)
(* (loaded by hand) or by calling a class; a capsule keeps its subitems    *)
(* once they have been loaded.                                             *)
(*                                                                         *)
(* Python values are modelled as follows.  A scalar is a string; the       *)
(* string "None" stands for the None object.  A value handed to            *)
(* Item.__setitem__ is a record [list, items]: list = FALSE and            *)
(* items = <<v>> for the scalar v, list = TRUE and items = the elements    *)
(* for a Python list.  A MultiDict is a function from its keys to the      *)
(* non-empty sequence of values it holds for each key.  An exception is    *)
(* the name of its class, "none" meaning a normal return.                  *)
(***************************************************************************)
EXTENDS Integers, Sequences, FiniteSets, TLC

\* ------------------------------------------------------------------ bounds
\* Number of caller operations (read, write, keys, serialize, subitems) in one run.
MaxOps == 3

\* ------------------------------------------------------------ input sets
Keys == {"_content", "x", "y"}
None == "None"
NoKeys == {}

Scalar(v) == [list |-> FALSE, items |-> <<v>>]
ListOf(vs) == [list |-> TRUE, items |-> vs]

\* Values a caller writes: two strings (one empty) and one list.
WriteValues == {Scalar("u"), Scalar(""), ListOf(<<"u", "v">>)}

EmptyDict == [k \in NoKeys |-> <<>>]
EmptyAliases == [k \in NoKeys |-> ""]

\* access_point.storage_aliases / access_point.parser_aliases
StorageAliasTables == {EmptyAliases, [k \in {"x"} |-> "y"]}
ParserAliasTables == {EmptyAliases, [k \in {"x"} |-> "_content"]}

\* storage_properties handed to the constructor by the storage backend
StorageInits ==
    {EmptyDict, [k \in {"y"} |-> "s"], [k \in {"_content"} |-> "s"], [k \in {"x"} |-> "s"]}

\* what a stream's read() returns
StreamData == {"", "d"}

\* ----------------------------------------------------- werkzeug MultiDict
\* MultiDict(mapping): every scalar of the mapping becomes a one-value list
MultiDict(mapping) == [k \in DOMAIN mapping |-> <<mapping[k]>>]

\* dict.__setitem__(d, k, values)
Put(d, k, values) == [q \in (DOMAIN d) \cup {k} |-> IF q = k THEN values ELSE d[q]]

\* ------------------------------------------------------ AliasedMultiDict
\* self.aliases.get(key, key)
Unalias(aliases, key) == IF key \in DOMAIN aliases THEN aliases[key] ELSE key

\* AliasedMultiDict.keys: self.aliases.keys() + self.data.keys()
AliasedMultiDict_keys(data, aliases) == (DOMAIN aliases) \cup (DOMAIN data)

\* AliasedMultiDict.__contains__: key in self.keys()
AliasedMultiDict__contains__(data, aliases, key) ==
    key \in AliasedMultiDict_keys(data, aliases)

\* AliasedMultiDict.__getitem__: self.data[self.aliases.get(key, key)];
\* MultiDict.__getitem__ returns the first value or raises KeyError.
AliasedMultiDict__getitem__(data, aliases, key) ==
    IF Unalias(aliases, key) \in DOMAIN data
    THEN [exc |-> "none", value |-> data[Unalias(aliases, key)][1]]
    ELSE [exc |-> "KeyError", value |-> None]

\* AliasedMultiDict.__setitem__: self.data[self.aliases.get(key, key)] = value;
\* MultiDict.__setitem__ replaces the key's values by the one value.
AliasedMultiDict__setitem__(data, aliases, key, v) ==
    Put(data, Unalias(aliases, key), <<v>>)

\* AliasedMultiDict.getlist: self.data.getlist(self.aliases.get(key, key))
AliasedMultiDict_getlist(data, aliases, key) ==
    IF Unalias(aliases, key) \in DOMAIN data THEN data[Unalias(aliases, key)] ELSE <<>>

\* AliasedMultiDict defines no setlist: looking the attribute up raises.
AliasedMultiDict_setlist(data, aliases, key, vs) ==
    [exc |-> "AttributeError", data |-> data]

\* ----------------------------------------------------- CombinedMultiDict
\* CombinedMultiDict.__getitem__ over [storage_properties, parser_properties]:
\* the first view that contains the key answers, also when it raises.
CombinedMultiDict__getitem__(self, key) ==
    IF AliasedMultiDict__contains__(self.raw_storage_properties, self.storage_aliases, key)
    THEN AliasedMultiDict__getitem__(self.raw_storage_properties, self.storage_aliases, key)
    ELSE IF AliasedMultiDict__contains__(self.raw_parser_properties, self.parser_aliases, key)
    THEN AliasedMultiDict__getitem__(self.raw_parser_properties, self.parser_aliases, key)
    ELSE [exc |-> "KeyError", value |-> None]

\* CombinedMultiDict.keys over the two aliased views (self.properties)
CombinedMultiDict_keys(self) ==
    AliasedMultiDict_keys(self.raw_storage_properties, self.storage_aliases)
        \cup AliasedMultiDict_keys(self.raw_parser_properties, self.parser_aliases)

\* CombinedMultiDict.getlist over the two aliased views: the views' lists, joined
CombinedMultiDict_getlist(self, key) ==
    AliasedMultiDict_getlist(self.raw_storage_properties, self.storage_aliases, key)
        \o AliasedMultiDict_getlist(self.raw_parser_properties, self.parser_aliases, key)

\* self.raw_properties.keys(): the canonical keys of the two raw maps
raw_properties_keys(self) ==
    (DOMAIN self.raw_storage_properties) \cup (DOMAIN self.raw_parser_properties)

\* ------------------------------------------------------------------ Item
\* is_storage with the two alias tables consulted in the other order
is_storage_parser_first(self, key) ==
    IF key \in DOMAIN self.parser_aliases THEN FALSE
    ELSE IF key \in DOMAIN self.storage_aliases THEN TRUE
    ELSE AliasedMultiDict__contains__(self.raw_storage_properties, self.storage_aliases, key)

\* Item.__setitem__, lines 119-124: which namespace the key is written to
is_storage(self, key) ==
    IF key \in DOMAIN self.storage_aliases THEN TRUE
    ELSE IF key \in DOMAIN self.parser_aliases THEN FALSE
    ELSE AliasedMultiDict__contains__(self.raw_storage_properties, self.storage_aliases, key)

\* set_property that lowers the flag of the other namespace
set_property_exclusive(self, storage, key, value) ==
    IF storage
    THEN IF value.list
         THEN [self |-> self,
               exc |-> AliasedMultiDict_setlist(self.raw_storage_properties,
                          self.storage_aliases, key, value.items).exc]
         ELSE [self |-> [self EXCEPT
                   !.raw_storage_properties = AliasedMultiDict__setitem__(
                       self.raw_storage_properties, self.storage_aliases, key, value.items[1]),
                   !.content_modified = TRUE, !.parser_modified = FALSE],
               exc |-> "none"]
    ELSE IF value.list
         THEN [self |-> self,
               exc |-> AliasedMultiDict_setlist(self.raw_parser_properties,
                          self.parser_aliases, key, value.items).exc]
         ELSE [self |-> [self EXCEPT
                   !.raw_parser_properties = AliasedMultiDict__setitem__(
                       self.raw_parser_properties, self.parser_aliases, key, value.items[1]),
                   !.parser_modified = TRUE, !.content_modified = FALSE],
               exc |-> "none"]

\* Item.__setitem__, lines 126-137: the value is set in the chosen view, a
\* list through the view's setlist, and the view's flag is raised afterwards.
\* Returns the item after the call and the exception raised.
set_property(self, storage, key, value) ==
    IF storage
    THEN IF value.list
         THEN [self |-> self,
               exc |-> AliasedMultiDict_setlist(self.raw_storage_properties,
                          self.storage_aliases, key, value.items).exc]
         ELSE [self |-> [self EXCEPT
                   !.raw_storage_properties = AliasedMultiDict__setitem__(
                       self.raw_storage_properties, self.storage_aliases, key, value.items[1]),
                   !.content_modified = TRUE],
               exc |-> "none"]
    ELSE IF value.list
         THEN [self |-> self,
               exc |-> AliasedMultiDict_setlist(self.raw_parser_properties,
                          self.parser_aliases, key, value.items).exc]
         ELSE [self |-> [self EXCEPT
                   !.raw_parser_properties = AliasedMultiDict__setitem__(
                       self.raw_parser_properties, self.parser_aliases, key, value.items[1]),
                   !.parser_modified = TRUE],
               exc |-> "none"]

\* Item.__setitem__ that also marks the item loaded
Item__setitem__loading(self, key, value) ==
    LET r == set_property(self, is_storage(self, key), key, value)
    IN [r EXCEPT !.self.loaded = TRUE]

\* Item.__setitem__
Item__setitem__(self, key, value) ==
    set_property(self, is_storage(self, key), key, value)

\* Item._open: the opener is called when there is one and no stream yet
Item_open(self) ==
    IF (~self.stream.open) /\ self.opener.kind # "None"
    THEN CASE self.opener.kind = "ok" ->
                [self |-> [self EXCEPT !.opener_calls = @ + 1,
                              !.stream = [open |-> TRUE, data |-> self.opener.data]],
                 exc |-> "none"]
           [] self.opener.kind = "raises" ->
                [self |-> [self EXCEPT !.opener_calls = @ + 1], exc |-> "IOError"]
           [] OTHER ->
                [self |-> [self EXCEPT !.opener_calls = @ + 1], exc |-> "none"]
    ELSE [self |-> self, exc |-> "none"]

\* _custom_parse_data of the item's class: Item (and a capsule class, which
\* inherits it) returns an empty MultiDict, AtomItem returns {'_content': self._stream.read()}, a custom parser returns
\* what its hook extracts.  The result is the list parse_data.items().
custom_parse_data(self) ==
    CASE self.variant \in {"Item", "CapsuleItem", "CustomCapsule"} ->
            [self |-> [self EXCEPT !.parse_calls = @ + 1], exc |-> "none", items |-> <<>>]
      [] self.variant = "AtomItem" ->
            IF self.stream.open
            THEN [self |-> [self EXCEPT !.parse_calls = @ + 1, !.stream.data = ""],
                  exc |-> "none",
                  items |-> <<[key |-> "_content", value |-> Scalar(self.stream.data)]>>]
            ELSE [self |-> [self EXCEPT !.parse_calls = @ + 1],
                  exc |-> "AttributeError", items |-> <<>>]
      [] OTHER ->
            IF self.hook.raises
            THEN [self |-> [self EXCEPT !.parse_calls = @ + 1],
                  exc |-> "ValueError", items |-> <<>>]
            ELSE [self |-> [self EXCEPT !.parse_calls = @ + 1],
                  exc |-> "none", items |-> self.hook.parsed]

\* Item._parse_data, lines 288-289: self[key] = value for every parsed pair,
\* stopping at the first assignment that raises
RECURSIVE SetParsed(_, _)
SetParsed(self, items) ==
    IF items = <<>> THEN [self |-> self, exc |-> "none"]
    ELSE LET r == Item__setitem__(self, Head(items).key, Head(items).value)
         IN IF r.exc # "none" THEN r ELSE SetParsed(r.self, Tail(items))

\* Item._parse_data
Item_parse_data(self) ==
    LET o == Item_open(self)
    IN IF o.exc # "none" THEN o
       ELSE LET h == custom_parse_data(o.self)
            IN IF h.exc # "none" THEN [self |-> h.self, exc |-> h.exc]
               ELSE SetParsed(h.self, h.items)

\* Item.__getitem__ without the except clause
Item_lookup_raising(self, key) == CombinedMultiDict__getitem__(self, key)

\* Item.__getitem__, lines 111-114: a KeyError of the lookup becomes None
Item_lookup(self, key) ==
    LET r == CombinedMultiDict__getitem__(self, key)
    IN IF r.exc = "KeyError" THEN [exc |-> "none", value |-> None] ELSE r

\* Item.__getitem__
Item__getitem__(self, key) ==
    IF ~self.loaded
    THEN LET p == Item_parse_data(self)
         IN IF p.exc # "none"
            THEN [self |-> p.self, exc |-> p.exc, value |-> None]
            ELSE LET l == [p.self EXCEPT !.loaded = TRUE]
                     r == Item_lookup(l, key)
                 IN [self |-> l, exc |-> r.exc, value |-> r.value]
    ELSE LET r == Item_lookup(self, key)
         IN [self |-> self, exc |-> r.exc, value |-> r.value]

\* Item.keys
Item_keys(self) == CombinedMultiDict_keys(self)

\* _custom_serialize of the item's class: AtomItem returns
\* properties['_content'], the base class (and a parser that keeps it) ''
custom_serialize(self, properties) ==
    IF self.variant = "AtomItem"
    THEN IF "_content" \in DOMAIN properties
         THEN [exc |-> "none", value |-> properties["_content"]]
         ELSE [exc |-> "KeyError", value |-> None]
    ELSE [exc |-> "none", value |-> ""]

\* Item.serialize: the names are listed first, then every name is read
Item_serialize(self) ==
    LET names == raw_properties_keys(self)
    IN IF names = {}
       THEN LET s == custom_serialize(self, [n \in NoKeys |-> None])
            IN [self |-> self, exc |-> s.exc, value |-> s.value,
                properties |-> [n \in NoKeys |-> None]]
       ELSE LET first == Item__getitem__(self, CHOOSE n \in names : TRUE)
            IN IF first.exc # "none"
               THEN [self |-> first.self, exc |-> first.exc, value |-> None,
                     properties |-> [n \in NoKeys |-> None]]
               ELSE LET properties == [n \in names |-> Item__getitem__(first.self, n).value]
                        s == custom_serialize(first.self, properties)
                    IN [self |-> first.self, exc |-> s.exc, value |-> s.value,
                        properties |-> properties]

\* Item.__init__: the fields as set by lines 78-99, then self['_content'] = ''
Item__init__(variant, storage_aliases, parser_aliases, opener, hook, storage_properties) ==
    Item__setitem__(
        [variant |-> variant,
         opener |-> opener,
         hook |-> hook,
         stream |-> [open |-> FALSE, data |-> ""],
         loaded |-> FALSE,
         content_modified |-> FALSE,
         parser_modified |-> FALSE,
         storage_aliases |-> storage_aliases,
         parser_aliases |-> parser_aliases,
         raw_storage_properties |-> MultiDict(storage_properties),
         raw_parser_properties |-> EmptyDict,
         opener_calls |-> 0,
         parse_calls |-> 0],
        "_content", Scalar("")).self

\* ------------------------------------------------- construction inputs
NoHook == [raises |-> FALSE, parsed |-> <<>>]
NoOpener == [kind |-> "None", data |-> ""]

\* (key, value) pairs a custom parse hook may extract
ParsedPairs == {[key |-> "y", value |-> Scalar("p")],
                [key |-> "y", value |-> ListOf(<<"p", "q">>)],
                [key |-> "x", value |-> ListOf(<<"p", "q">>)]}

\* parse_data.items() of a custom parser: at most one pair per key, any order
ParseResults ==
    {<<>>} \cup {<<a>> : a \in ParsedPairs}
           \cup {r \in {<<a, b>> : a \in ParsedPairs, b \in ParsedPairs} : r[1].key # r[2].key}

\* openers: absent, returning a stream, raising, returning None
Openers ==
    {NoOpener, [kind |-> "raises", data |-> ""], [kind |-> "null", data |-> ""]}
        \cup {[kind |-> "ok", data |-> d] : d \in StreamData}

\* utils.recursive_subclasses(Item): the classes of this module and two
\* parser classes written as the module's docstring asks, one of them a capsule
ItemClasses == {"AtomItem", "CapsuleItem", "Custom", "CustomCapsule"}

\* the static attribute ``format`` of a class; CapsuleItem inherits Item's None
format(class) ==
    CASE class = "AtomItem" -> "binary"
      [] class = "Custom" -> "custom"
      [] class = "CustomCapsule" -> "capsule"
      [] OTHER -> None

\* access_point.parser_name
ParserNames == {None, "binary", "custom", "capsule", "I do not exist"}

\* the state of the variables when no item exists
NoItem ==
    [variant |-> "NoItem", opener |-> NoOpener, hook |-> NoHook,
     stream |-> [open |-> FALSE, data |-> ""], loaded |-> FALSE,
     content_modified |-> FALSE, parser_modified |-> FALSE,
     storage_aliases |-> EmptyAliases, parser_aliases |-> EmptyAliases,
     raw_storage_properties |-> EmptyDict, raw_parser_properties |-> EmptyDict,
     opener_calls |-> 0, parse_calls |-> 0]

\* get_item_parser that falls back to a bare Item for an unknown format
get_item_parser_fallback(parser_name, storage_aliases, parser_aliases, opener, hook, storage_properties) ==
    IF \E class \in ItemClasses : format(class) = parser_name /\ parser_name # None
    THEN [exc |-> "none",
          self |-> Item__init__(CHOOSE class \in ItemClasses : format(class) = parser_name,
                       storage_aliases, parser_aliases, opener, hook, storage_properties)]
    ELSE [exc |-> "none",
          self |-> Item__init__("Item", storage_aliases, parser_aliases, NoOpener, NoHook,
                       storage_properties)]

\* Item.get_item_parser: parser_name None gives a bare Item without opener,
\* the format of a subclass an instance of that subclass, any other name raises
get_item_parser(parser_name, storage_aliases, parser_aliases, opener, hook, storage_properties) ==
    IF parser_name = None
    THEN [exc |-> "none",
          self |-> Item__init__("Item", storage_aliases, parser_aliases, NoOpener, NoHook,
                       storage_properties)]
    ELSE IF \E class \in ItemClasses : format(class) = parser_name
    THEN [exc |-> "none",
          self |-> Item__init__(CHOOSE class \in ItemClasses : format(class) = parser_name,
                       storage_aliases, parser_aliases, opener, hook, storage_properties)]
    ELSE [exc |-> "ParserNotAvailable", self |-> NoItem]

\* calls of Item.get_item_parser: the access point's parser_name, the opener
\* handed over, and what the parse hook of a custom parser class does
Descriptors ==
    {[parser_name |-> None, opener |-> o, hook |-> NoHook] :
        o \in {NoOpener, [kind |-> "ok", data |-> "d"]}}
        \cup {[parser_name |-> "binary", opener |-> o, hook |-> NoHook] : o \in Openers}
        \cup {[parser_name |-> "custom", opener |-> [kind |-> "ok", data |-> ""],
               hook |-> [raises |-> FALSE, parsed |-> r]] : r \in ParseResults}
        \cup {[parser_name |-> "custom", opener |-> [kind |-> "ok", data |-> ""],
               hook |-> [raises |-> TRUE, parsed |-> <<>>]]}
        \cup {[parser_name |-> "capsule", opener |-> NoOpener, hook |-> NoHook]}
        \cup {[parser_name |-> "I do not exist", opener |-> NoOpener, hook |-> NoHook]}

\* properties handed to create_item, scalars and a list, and the storage
\* names the access point declares (access_point.get_storage_properties())
FreshProperties ==
    {[n \in NoKeys |-> Scalar("")], [n \in {"y"} |-> Scalar("a")],
     [n \in {"x"} |-> Scalar("a")], [n \in {"_content"} |-> Scalar("c")],
     [n \in {"x", "y"} |-> IF n = "x" THEN Scalar("a") ELSE Scalar("b")],
     [n \in {"y"} |-> ListOf(<<"a", "b">>)]}
DeclaredStorage == {NoKeys, {"y"}, {"x"}}

\* access_point.parser_aliases of the access points create_item is called
\* with: also an alias of a key other than '_content'
FreshParserAliasTables == ParserAliasTables \cup {[k \in {"x"} |-> "z"]}

\* create_item, lines 182-183: '_content' defaults to ''
WithContent(properties) ==
    [n \in (DOMAIN properties) \cup {"_content"} |->
        IF n \in DOMAIN properties THEN properties[n] ELSE Scalar("")]

\* the orders in which properties.items() may yield the entries
ItemsOrders(properties) ==
    {o \in [1..Cardinality(DOMAIN properties) -> DOMAIN properties] :
        \A i, j \in DOMAIN o : o[i] = o[j] => i = j}

\* Item.create_item: a skeleton of None for every declared storage name, the
\* parser class of the access point with the default opener (StringIO), loaded
\* set by hand, then every property written through __setitem__; a write that
\* raises ends the call and no item is returned
create_item(parser_name, storage_aliases, parser_aliases, hook, declared, properties, order) ==
    LET storage_properties == [n \in declared |-> None]
        made == get_item_parser(parser_name, storage_aliases, parser_aliases,
                                [kind |-> "ok", data |-> ""], hook, storage_properties)
        given == WithContent(properties)
    IN IF made.exc # "none" THEN made
       ELSE LET written == SetParsed([made.self EXCEPT !.loaded = TRUE],
                               [i \in DOMAIN order |->
                                   [key |-> order[i], value |-> given[order[i]]]])
            IN IF written.exc # "none"
               THEN [exc |-> written.exc, self |-> NoItem]
               ELSE [exc |-> "none", self |-> written.self]

\* calls of Item.create_item: parser_name and the parse hook of the class
FreshDescriptors ==
    {[parser_name |-> None, hook |-> NoHook],
     [parser_name |-> "custom",
      hook |-> [raises |-> FALSE, parsed |-> <<[key |-> "y", value |-> Scalar("p")]>>]]}

\* what _load_subitems of a capsule parser class returns
LoadedSubitems == <<"a", "b">>
NoSubitems == [cached |-> FALSE, id |-> 0, items |-> <<>>]

\* CapsuleItem._load_subitems: abstract on CapsuleItem, overridden below it
load_subitems(class) ==
    IF class = "CapsuleItem"
    THEN [exc |-> "NotImplementedError", items |-> <<>>]
    ELSE [exc |-> "none", items |-> LoadedSubitems]

\* CapsuleItem.subitems without the hasattr test: loads on every access
CapsuleItem_subitems_reloading(class, cache, calls) ==
    LET l == load_subitems(class)
    IN IF l.exc # "none"
       THEN [exc |-> l.exc, value |-> NoSubitems, cache |-> cache, calls |-> calls + 1]
       ELSE LET made == [cached |-> TRUE, id |-> calls + 1, items |-> l.items]
            IN [exc |-> "none", value |-> made, cache |-> made, calls |-> calls + 1]

\* CapsuleItem.subitems: the first access stores a ModificationTrackingList of
\* what _load_subitems returns in self._subitems, later ones return it; the
\* list made by the n-th call of _load_subitems has id n
CapsuleItem_subitems(class, cache, calls) ==
    IF cache.cached
    THEN [exc |-> "none", value |-> cache, cache |-> cache, calls |-> calls]
    ELSE LET l == load_subitems(class)
         IN IF l.exc # "none"
            THEN [exc |-> l.exc, value |-> NoSubitems, cache |-> cache, calls |-> calls + 1]
            ELSE LET made == [cached |-> TRUE, id |-> calls + 1, items |-> l.items]
                 IN [exc |-> "none", value |-> made, cache |-> made, calls |-> calls + 1]

\* ----------------------------------------------------------------- state
VARIABLES
    variant,                  \* class of the item
    opener,                   \* self._opener
    hook,                     \* what _custom_parse_data of a custom parser does
    stream,                   \* self._stream
    loaded,                   \* self._loaded
    content_modified,         \* self._content_modified
    parser_modified,          \* self._parser_modified
    storage_aliases,          \* self.storage_aliases
    parser_aliases,           \* self.parser_aliases
    raw_storage_properties,   \* self.raw_storage_properties
    raw_parser_properties,    \* self.raw_parser_properties
    opener_calls,             \* calls of self._opener so far
    parse_calls,              \* calls of self._custom_parse_data so far
    subitems,                 \* self._subitems, if the attribute exists
    load_subitems_calls,      \* calls of self._load_subitems so far
    accesses,                 \* number of item.subitems accesses made by the caller
    made_by,                  \* the call that made the item
    parser_name,              \* access_point.parser_name
    raised,                   \* the exception of the call that made the item
    supplied,                 \* properties handed to create_item
    declared,                 \* access_point.get_storage_properties()
    eager,                    \* the same item, read once right after construction
    last,                     \* the last call made on the item and its outcome
    reads,                    \* number of item[key] calls made by the caller
    writes,                   \* number of item[key] = value calls made by the caller
    serializes,               \* number of item.serialize() calls made by the caller
    ops                       \* number of calls made by the caller

vars == <<variant, opener, hook, stream, loaded, content_modified, parser_modified,
          storage_aliases, parser_aliases, raw_storage_properties,
          raw_parser_properties, opener_calls, parse_calls, subitems,
          load_subitems_calls, accesses, made_by, parser_name, raised, supplied, declared,
          eager, last, reads, writes, serializes, ops>>

\* what the calls on the item never change
construction == <<made_by, parser_name, raised, supplied, declared>>

\* the item as one record
Self ==
    [variant |-> variant, opener |-> opener, hook |-> hook, stream |-> stream,
     loaded |-> loaded, content_modified |-> content_modified,
     parser_modified |-> parser_modified, storage_aliases |-> storage_aliases,
     parser_aliases |-> parser_aliases,
     raw_storage_properties |-> raw_storage_properties,
     raw_parser_properties |-> raw_parser_properties,
     opener_calls |-> opener_calls, parse_calls |-> parse_calls]

\* the item becomes the record s
Becomes(s) ==
    /\ variant' = s.variant
    /\ opener' = s.opener
    /\ hook' = s.hook
    /\ stream' = s.stream
    /\ loaded' = s.loaded
    /\ content_modified' = s.content_modified
    /\ parser_modified' = s.parser_modified
    /\ storage_aliases' = s.storage_aliases
    /\ parser_aliases' = s.parser_aliases
    /\ raw_storage_properties' = s.raw_storage_properties
    /\ raw_parser_properties' = s.raw_parser_properties
    /\ opener_calls' = s.opener_calls
    /\ parse_calls' = s.parse_calls

NoCall ==
    [op |-> "init", key |-> "", value |-> Scalar(""), exc |-> "none", res |-> None,
     keys |-> NoKeys, properties |-> [n \in NoKeys |-> None],
     eager_exc |-> "none", eager_res |-> None, subitems |-> NoSubitems]

\* the state after the call ``by`` has returned the item s or raised exc
Starts(s, by, name, exc, properties, storage_names) ==
    /\ variant = s.variant
    /\ opener = s.opener
    /\ hook = s.hook
    /\ stream = s.stream
    /\ loaded = s.loaded
    /\ content_modified = s.content_modified
    /\ parser_modified = s.parser_modified
    /\ storage_aliases = s.storage_aliases
    /\ parser_aliases = s.parser_aliases
    /\ raw_storage_properties = s.raw_storage_properties
    /\ raw_parser_properties = s.raw_parser_properties
    /\ opener_calls = s.opener_calls
    /\ parse_calls = s.parse_calls
    /\ subitems = NoSubitems
    /\ load_subitems_calls = 0
    /\ accesses = 0
    /\ made_by = by
    /\ parser_name = name
    /\ raised = exc
    /\ supplied = properties
    /\ declared = storage_names
    /\ eager = Item__getitem__(s, "_content")
    /\ last = NoCall
    /\ reads = 0
    /\ writes = 0
    /\ serializes = 0
    /\ ops = 0

\* Item.get_item_parser(access_point, opener, storage_properties) has returned
\* the item or raised; the eager item has been read once, which loads it.
InitParser ==
    \E d \in Descriptors, sa \in StorageAliasTables, pa \in ParserAliasTables,
       sp \in StorageInits :
        LET r == get_item_parser(d.parser_name, sa, pa, d.opener, d.hook, sp)
        IN Starts(r.self, "get_item_parser", d.parser_name, r.exc,
                  [n \in NoKeys |-> Scalar("")], NoKeys)

\* Item.create_item(access_point, properties) has returned the item or raised
InitFresh ==
    \E d \in FreshDescriptors, sa \in StorageAliasTables, pa \in FreshParserAliasTables,
       names \in DeclaredStorage, properties \in FreshProperties :
        \E order \in ItemsOrders(WithContent(properties)) :
            LET r == create_item(d.parser_name, sa, pa, d.hook, names, properties, order)
            IN Starts(r.self, "create_item", d.parser_name, r.exc, properties, names)

\* CapsuleItem(access_point, None, storage_properties) has returned the item
InitCapsule ==
    \E sp \in StorageInits :
        Starts(Item__init__("CapsuleItem", EmptyAliases, EmptyAliases, NoOpener, NoHook, sp),
               "CapsuleItem", None, "none", [n \in NoKeys |-> Scalar("")], NoKeys)

Init == InitParser \/ InitFresh \/ InitCapsule

\* value = item[key]
Read(key) ==
    /\ ops < MaxOps
    /\ raised = "none"
    /\ LET r == Item__getitem__(Self, key)
           e == Item__getitem__(eager.self, key)
       IN /\ Becomes(r.self)
          /\ eager' = [eager EXCEPT !.self = e.self]
          /\ last' = [NoCall EXCEPT !.op = "read", !.key = key, !.exc = r.exc,
                         !.res = r.value, !.eager_exc = e.exc, !.eager_res = e.value]
    /\ reads' = reads + 1
    /\ ops' = ops + 1
    /\ UNCHANGED <<construction, subitems, load_subitems_calls, accesses, writes, serializes>>

\* item[key] = value
Write(key, value) ==
    /\ ops < MaxOps
    /\ raised = "none"
    /\ LET r == Item__setitem__(Self, key, value)
           e == Item__setitem__(eager.self, key, value)
       IN /\ Becomes(r.self)
          /\ eager' = [eager EXCEPT !.self = e.self]
          /\ last' = [NoCall EXCEPT !.op = "write", !.key = key, !.value = value,
                         !.exc = r.exc, !.eager_exc = e.exc]
    /\ writes' = writes + 1
    /\ ops' = ops + 1
    /\ UNCHANGED <<construction, subitems, load_subitems_calls, accesses, reads, serializes>>

\* item.keys()
ListKeys ==
    /\ ops < MaxOps
    /\ raised = "none"
    /\ last' = [NoCall EXCEPT !.op = "keys", !.keys = Item_keys(Self)]
    /\ ops' = ops + 1
    /\ UNCHANGED <<variant, opener, hook, stream, loaded, content_modified,
                   parser_modified, storage_aliases, parser_aliases,
                   raw_storage_properties, raw_parser_properties, opener_calls,
                   parse_calls, construction, subitems, load_subitems_calls, accesses,
                   eager, reads, writes, serializes>>

\* item.serialize()
Serialize ==
    /\ ops < MaxOps
    /\ raised = "none"
    /\ LET r == Item_serialize(Self)
       IN /\ Becomes(r.self)
          /\ last' = [NoCall EXCEPT !.op = "serialize", !.exc = r.exc, !.res = r.value,
                         !.properties = r.properties]
    /\ serializes' = serializes + 1
    /\ ops' = ops + 1
    /\ UNCHANGED <<construction, subitems, load_subitems_calls, accesses, eager, reads, writes>>

\* item.subitems, on an item of a capsule class
Subitems ==
    /\ ops < MaxOps
    /\ raised = "none"
    /\ variant \in {"CapsuleItem", "CustomCapsule"}
    /\ LET r == CapsuleItem_subitems(variant, subitems, load_subitems_calls)
       IN /\ subitems' = r.cache
          /\ load_subitems_calls' = r.calls
          /\ last' = [NoCall EXCEPT !.op = "subitems", !.exc = r.exc,
                         !.subitems = r.value]
    /\ accesses' = accesses + 1
    /\ ops' = ops + 1
    /\ UNCHANGED <<variant, opener, hook, stream, loaded, content_modified,
                   parser_modified, storage_aliases, parser_aliases,
                   raw_storage_properties, raw_parser_properties, opener_calls,
                   parse_calls, construction, eager, reads, writes, serializes>>

Next ==
    \/ \E key \in Keys : Read(key)
    \/ \E key \in Keys, value \in WriteValues : Write(key, value)
    \/ ListKeys
    \/ Serialize
    \/ Subitems

Spec == Init /\ [][Next]_vars

\* ======================================================== properties
\* ----------------------------------------------------------------- C1
\* C1: a scalar write stores its value in exactly one raw map, at the key's
\* canonical name there, and leaves the other raw map as it was.  The map is
\* the storage map when the key is a storage alias; else the parser map when
\* the key is a parser alias; else the storage map when the key is one of its
\* canonical keys; else the parser map.
C1_WriteRouting ==
    [][(last'.op = "write" /\ ~last'.value.list) =>
         LET k == last'.key
             v == last'.value.items
             to_storage ==
                 \/ k \in DOMAIN storage_aliases
                 \/ k \notin DOMAIN parser_aliases /\ k \in DOMAIN raw_storage_properties
         IN /\ last'.exc = "none"
            /\ IF to_storage
               THEN /\ raw_storage_properties' =
                          Put(raw_storage_properties, Unalias(storage_aliases, k), v)
                    /\ raw_parser_properties' = raw_parser_properties
               ELSE /\ raw_parser_properties' =
                          Put(raw_parser_properties, Unalias(parser_aliases, k), v)
                    /\ raw_storage_properties' = raw_storage_properties]_vars

\* C1 witness: a key declared an alias in both tables has been written, and the
\* value is in the storage map only.
C1_Witness ==
    /\ last.op = "write" /\ ~last.value.list /\ last.value.items = <<"u">>
    /\ last.key \in (DOMAIN storage_aliases) \cap (DOMAIN parser_aliases)
    /\ raw_storage_properties[storage_aliases[last.key]] = <<"u">>
    /\ raw_parser_properties[parser_aliases[last.key]] # <<"u">>

\* ----------------------------------------------------------------- C2
\* neither the opener nor the parse hook of the item raises: the opener does
\* not, a custom hook does not, and an AtomItem has a stream to read
HooksDoNotRaise ==
    /\ opener.kind # "raises"
    /\ variant = "Custom" => ~hook.raises
    /\ variant = "AtomItem" => opener.kind = "ok"

\* C2: on an item made unloaded whose opener and parse hook do not raise, once the caller
\* has read (and whatever it wrote or listed in between), the parse hook has
\* run exactly once.
C2_ExactlyOnceLoad ==
    (made_by # "create_item" /\ HooksDoNotRaise /\ serializes = 0 /\ reads >= 1)
        => parse_calls = 1

\* ----------------------------------------------------------------- C3
\* a key that holds no value in either raw map, under either alias table
NoStoredValue(key) ==
    /\ Unalias(storage_aliases, key) \notin DOMAIN raw_storage_properties
    /\ Unalias(parser_aliases, key) \notin DOMAIN raw_parser_properties

\* C3: a read never raises KeyError, and a read that returns for a key that
\* holds no value in either namespace returns None.
C3_AbsentReadsNone ==
    last.op = "read" =>
        /\ last.exc # "KeyError"
        /\ (last.exc = "none" /\ NoStoredValue(last.key)) => last.res = None

\* C3 witness: a name that keys() lists, an alias whose canonical key holds
\* nothing, has been read and the read returned None.
C3_Witness ==
    /\ last.op = "read" /\ last.exc = "none" /\ last.res = None
    /\ last.key \in DOMAIN storage_aliases
    /\ last.key \in Item_keys(Self)
    /\ NoStoredValue(last.key)

\* ----------------------------------------------------------------- C4
\* C4: as long as the caller has only written and listed keys, an item that
\* was made unloaded (by a class or by get_item_parser) is not loaded, neither the opener nor the parse hook has been called and there is
\* no stream; and no write and no keys call, in any state, changes loaded, the
\* stream or the number of opener and parse hook calls.
C4_WritesAndKeysDoNotLoad ==
    /\ []((made_by # "create_item" /\ reads = 0 /\ serializes = 0) =>
            (~loaded /\ opener_calls = 0 /\ parse_calls = 0 /\ ~stream.open))
    /\ [][last'.op \in {"write", "keys"} =>
            /\ loaded' = loaded
            /\ stream' = stream
            /\ opener_calls' = opener_calls
            /\ parse_calls' = parse_calls]_vars

\* C4 witness: two calls, the last a write that took effect, and no load.
C4_Witness ==
    /\ made_by = "get_item_parser" /\ reads = 0 /\ serializes = 0 /\ ops >= 2
    /\ last.op = "write" /\ last.exc = "none"
    /\ ~loaded /\ parse_calls = 0

\* ----------------------------------------------------------------- C5
\* C5: on an AtomItem with a stream, item.write(s) followed by
\* item.serialize() returns s.
C5_AtomRoundTrip ==
    [][(/\ variant = "AtomItem" /\ opener.kind = "ok"
        /\ last.op = "write" /\ last.key = "_content" /\ ~last.value.list
        /\ last.exc = "none"
        /\ last'.op = "serialize")
       => (last'.exc = "none" /\ last'.res = last.value.items[1])]_vars

\* ----------------------------------------------------------------- C6
\* C6: every read returns what the same read returns on the item that was
\* loaded right after construction and has seen the same calls since.
C6_LazyLoadTransparent ==
    (last.op = "read" /\ eager.exc = "none") =>
        (last.exc = last.eager_exc /\ last.res = last.eager_res)

\* ----------------------------------------------------------------- C7
\* C7: after a scalar write to a storage alias, a read of the alias or of its
\* canonical key that returns, returns the written value.
C7_AliasEquivalence ==
    [][(/\ last.op = "write" /\ ~last.value.list /\ last.exc = "none"
        /\ last.key \in DOMAIN storage_aliases
        /\ last'.op = "read" /\ last'.exc = "none"
        /\ last'.key \in {last.key, storage_aliases[last.key]})
       => last'.res = last.value.items[1]]_vars

\* ----------------------------------------------------------------- C8
\* C8: a write to a key without alias that is a key of the storage map raises
\* content_modified and keeps parser_modified; a write to a key without alias
\* that neither map holds raises parser_modified and keeps content_modified.
C8_DirtyFlagsFollowRouting ==
    [][(/\ last'.op = "write"
        /\ last'.key \notin DOMAIN storage_aliases
        /\ last'.key \notin DOMAIN parser_aliases)
       => /\ last'.key \in DOMAIN raw_storage_properties =>
                (content_modified' /\ parser_modified' = parser_modified)
          /\ (/\ last'.key \notin DOMAIN raw_storage_properties
              /\ last'.key \notin DOMAIN raw_parser_properties) =>
                (parser_modified' /\ content_modified' = content_modified)]_vars

\* ----------------------------------------------------------------- C9
\* C9: right after get_item_parser has returned the item, before any call of
\* the caller, neither modification flag is set.
C9_FlagsClearAfterConstruction ==
    (made_by = "get_item_parser" /\ raised = "none" /\ ops = 0)
        => (~content_modified /\ ~parser_modified)

\* ---------------------------------------------------------------- C10
\* C10: a write of a list returns normally, raises the flag of the namespace
\* the key is routed to, and the key's list of values is then the list written.
C10_MultiValuedWrite ==
    [][(last'.op = "write" /\ last'.value.list)
       => /\ last'.exc = "none"
          /\ IF is_storage(Self, last'.key) THEN content_modified' ELSE parser_modified'
          /\ CombinedMultiDict_getlist(Self', last'.key) = last'.value.items]_vars

\* ---------------------------------------------------------------- C11
\* C11: a serialize that returns has handed the hook a mapping whose names are
\* the canonical keys the two raw maps hold now that the load is done, each
\* with the value a read of it returns, and has returned the hook's result.
C11_SerializeMapping ==
    (last.op = "serialize" /\ last.exc = "none") =>
        /\ loaded
        /\ DOMAIN last.properties = raw_properties_keys(Self)
        /\ \A name \in DOMAIN last.properties :
               last.properties[name] = Item_lookup(Self, name).value
        /\ last.res = custom_serialize(Self, last.properties).value

\* ---------------------------------------------------------------- C12
\* the names at play in create_item: the supplied ones, '_content' and the
\* declared storage names
FreshNames == (DOMAIN supplied) \cup {"_content"} \cup declared

\* the canonical key a name is written to
Resolve(name) ==
    IF name \in DOMAIN storage_aliases THEN storage_aliases[name]
    ELSE IF name \in DOMAIN parser_aliases THEN parser_aliases[name]
    ELSE name

\* the names at play resolve to canonical keys that are all different
DistinctNames ==
    \A j, k \in FreshNames : j # k => Resolve(j) # Resolve(k)

\* every supplied value is a scalar
ScalarsSupplied == \A name \in DOMAIN supplied : ~supplied[name].list

\* C12: create_item, handed scalar values under names that, with '_content'
\* and the declared storage names, resolve to different canonical keys,
\* returns an item; the item is loaded and neither its opener nor its parse
\* hook is ever called; and a read made before any write of the caller
\* returns the value supplied for the name, '' for '_content' when none was
\* supplied, and None for a declared storage name that was not supplied.
C12_FreshItem ==
    (made_by = "create_item" /\ ScalarsSupplied /\ DistinctNames) =>
        /\ raised = "none"
        /\ loaded /\ opener_calls = 0 /\ parse_calls = 0 /\ ~stream.open
        /\ (writes = 0 /\ last.op = "read") =>
             /\ last.exc = "none"
             /\ last.key \in DOMAIN supplied => last.res = supplied[last.key].items[1]
             /\ (last.key = "_content" /\ "_content" \notin DOMAIN supplied)
                    => last.res = ""
             /\ last.key \in declared \ DOMAIN supplied => last.res = None

\* ---------------------------------------------------------------- C13
\* the item, or the failure, came out of Item.get_item_parser: called by the
\* caller, or by a create_item that returned what it got from it
Dispatched ==
    \/ made_by = "get_item_parser"
    \/ made_by = "create_item" /\ raised = "none"

\* C13: for a parser_name that is not None and is the format of no class,
\* get_item_parser raises ParserNotAvailable and there is no item; for None it
\* returns an Item proper without opener, and no read of that item changes the
\* raw maps; for the format of a class it returns an instance of a class with
\* that format.
C13_FormatDispatch ==
    /\ [](Dispatched =>
            /\ (parser_name # None /\ \A class \in ItemClasses : format(class) # parser_name)
                   => (raised = "ParserNotAvailable" /\ variant = "NoItem")
            /\ parser_name = None
                   => (raised = "none" /\ variant = "Item" /\ opener.kind = "None")
            /\ (parser_name # None /\ \E class \in ItemClasses : format(class) = parser_name)
                   => (raised = "none" /\ variant \in ItemClasses
                       /\ format(variant) = parser_name))
    /\ [][(Dispatched /\ parser_name = None /\ last'.op = "read")
            => /\ last'.exc = "none"
               /\ raw_parser_properties' = raw_parser_properties
               /\ raw_storage_properties' = raw_storage_properties]_vars

\* C13 witness: get_item_parser was called with a parser_name no class has as
\* its format, and it raised.
C13_Witness ==
    /\ made_by = "get_item_parser" /\ parser_name = "I do not exist"
    /\ raised = "ParserNotAvailable" /\ variant = "NoItem" /\ ops = 0

\* ---------------------------------------------------------------- C14
\* C14: whatever calls are made on an item, and whether or not the opener or
\* the parse hook raises or the opener returns None, the opener has been
\* called at most once.
C14_OpenerAtMostOnce == opener_calls <= 1

\* ---------------------------------------------------------------- C15
\* C15: whatever calls are made on an item, and whether or not the parse hook
\* or the application of a parsed pair raises, the parse hook has been called
\* at most once.
C15_ParseAtMostOnce == parse_calls <= 1

\* ---------------------------------------------------------------- C16
\* C16: no canonical key is a key of both the raw storage map and the raw
\* parser map.
C16_SingleOwnership ==
    (DOMAIN raw_storage_properties) \cap (DOMAIN raw_parser_properties) = {}

\* ---------------------------------------------------------------- C17
\* C17: on a loaded item, a read of the key that was just written with a
\* scalar returns that scalar.
C17_ReadYourWrites ==
    [][(/\ loaded /\ last.op = "write" /\ ~last.value.list /\ last.exc = "none"
        /\ last'.op = "read" /\ last'.key = last.key)
       => (last'.exc = "none" /\ last'.res = last.value.items[1])]_vars

\* ---------------------------------------------------------------- C18
\* C18: in each view, a key is contained exactly when its canonical key is a
\* key of the raw map behind the view; and a read that returns for a key the
\* storage view holds no value for returns what the parser view gives.
C18_ContainsIffStored ==
    /\ \A key \in Keys :
        /\ AliasedMultiDict__contains__(raw_storage_properties, storage_aliases, key)
               <=> Unalias(storage_aliases, key) \in DOMAIN raw_storage_properties
        /\ AliasedMultiDict__contains__(raw_parser_properties, parser_aliases, key)
               <=> Unalias(parser_aliases, key) \in DOMAIN raw_parser_properties
    /\ (/\ last.op = "read" /\ last.exc = "none"
        /\ Unalias(storage_aliases, last.key) \notin DOMAIN raw_storage_properties
        /\ Unalias(parser_aliases, last.key) \in DOMAIN raw_parser_properties)
           => last.res = raw_parser_properties[Unalias(parser_aliases, last.key)][1]

\* ---------------------------------------------------------------- C19
\* C19: no call on the item resets loaded, content_modified or
\* parser_modified from true to false.
C19_MonotonicFlags ==
    [][/\ loaded => loaded'
       /\ content_modified => content_modified'
       /\ parser_modified => parser_modified']_vars

\* C19 witness: an item made unloaded has been written twice and then read, and
\* all three are true.
C19_Witness ==
    /\ loaded /\ content_modified /\ parser_modified
    /\ made_by = "get_item_parser" /\ writes >= 2
    /\ last.op = "read" /\ last.exc = "none"

\* ---------------------------------------------------------------- C20
\* C20: on an item of a class that overrides _load_subitems, once subitems has
\* been accessed _load_subitems has run exactly once, and every access returns
\* the list made from that one call, which is the list kept in _subitems; on a
\* CapsuleItem proper every access calls _load_subitems, raises
\* NotImplementedError and leaves the item without _subitems.
C20_SubitemsMemoized ==
    /\ variant = "CustomCapsule" =>
          /\ load_subitems_calls = (IF accesses = 0 THEN 0 ELSE 1)
          /\ subitems.cached <=> accesses >= 1
          /\ last.op = "subitems" =>
               /\ last.exc = "none"
               /\ last.subitems = subitems
               /\ last.subitems.id = 1
               /\ last.subitems.items = LoadedSubitems
    /\ variant = "CapsuleItem" =>
          /\ ~subitems.cached
          /\ load_subitems_calls = accesses
          /\ last.op = "subitems" => last.exc = "NotImplementedError"

\* C20 witness: subitems of an item of an overriding class has been accessed
\* three times, and _load_subitems has run once.
C20_Witness ==
    /\ variant = "CustomCapsule" /\ accesses = 3 /\ last.op = "subitems"
    /\ load_subitems_calls = 1 /\ last.subitems = subitems /\ subitems.cached

====
